---- MODULE Spec2Model ----
(***************************************************************************)
(* LearnzVerse: the /chat request handler of src/app.py.                   *)
(*                                                                         *)
(* A request is a JSON object with the keys tutor, message and history.    *)
(* The handler validates tutor and message, assembles the message          *)
(* sequence, and tries the models of MODELS in order against the external  *)
(* completion service until one attempt yields a reply.                    *)
(*                                                                         *)
(* JSON / Python values are tagged records: None, Str, Num, List, Dict.    *)
(* Missing marks a key that is absent from a JSON object.                  *)
(***************************************************************************)
EXTENDS Integers, Sequences, FiniteSets, TLC

(***************************************************************************)
(* Bounds of the model.                                                    *)
(***************************************************************************)
MaxHistory == 2
NumRequests == 2

(***************************************************************************)
(* Python / JSON values.                                                   *)
(***************************************************************************)
Missing == [t |-> "missing"]
None == [t |-> "null"]
Str(s) == [t |-> "str", v |-> s]
Num(n) == [t |-> "num", v |-> n]
List(q) == [t |-> "list", v |-> q]
Dict(f) == [t |-> "dict", v |-> f]

\* bool(x): None, "", 0 and [] are falsy.  Every Dict of the model is non-empty.
Truthy(x) ==
  CASE x.t = "null" -> FALSE
    [] x.t = "str"  -> x.v # ""
    [] x.t = "num"  -> x.v # 0
    [] x.t = "list" -> Len(x.v) > 0
    [] x.t = "dict" -> TRUE

\* hash(x) raises TypeError for lists and dicts.
Hashable(x) == x.t \notin {"list", "dict"}

\* data.get(key, default) on the JSON object of the request.
DictGet(data, key, default) ==
  IF data[key] = Missing THEN default ELSE data[key]

\* key in d, for a dict d whose keys are strings and a hashable key.
InDict(key, d) == key.t = "str" /\ key.v \in DOMAIN d

\* Exceptions carry their type and their argument.
Exc(type, arg) == [type |-> type, arg |-> arg]

\* repr() of a string without quotes or escapes.
Repr(s) == "'" \o s \o "'"

\* str(e): a KeyError prints the repr of its key, the others their message.
StrOfException(e) == IF e.type = "KeyError" THEN Repr(e.arg) ELSE e.arg

(***************************************************************************)
(* Module-level data of app.py.                                            *)
(***************************************************************************)
TutorPromptTable ==
  [
     physics |->
       "You are Mr. Newton, an expert Physics tutor. Provide detailed, step-by-step explanations to help students understand physics concepts. Focus on classical mechanics, thermodynamics, and problem-solving strategies. Break down complex problems into manageable parts using clear language and real-world examples.",
     chemistry |->
       "You are Madam Curie, a Chemistry professor. Specialize in organic chemistry and chemical reactions. Provide clear explanations with laboratory applications. Help students understand balancing equations and reaction mechanisms with practical examples and step-by-step guidance.",
     biology |->
       "You are Dr. Darwin, a Biology expert. Focus on evolution, genetics, and ecology. Explain complex biological systems with clear analogies. Specialize in cellular biology and human anatomy, providing detailed explanations with visual descriptions when helpful.",
     math |->
       "You are Prof. Euler, a Mathematics tutor. Specialize in algebra, calculus, and geometry. Break down problems into understandable steps with clear explanations. Help students develop problem-solving skills in trigonometry, statistics, and advanced mathematical concepts."
  ]

ModelList ==
  << "anthropic/claude-3-haiku",
     "anthropic/claude-3-sonnet",
     "openai/gpt-3.5-turbo",
     "google/gemini-pro" >>

\* temperature=0.7, in tenths; max_tokens=1000.
TemperatureTenths == 7
MaxTokens == 1000

InvalidTutorText == "Invalid tutor selected"
EmptyMessageText == "Message cannot be empty"
ApologyText ==
  "Sorry, I'm having trouble connecting to the tutor service. Please try again later."

(***************************************************************************)
(* The requests the clients send: JSON objects whose keys may be absent.   *)
(***************************************************************************)
TutorValues ==
  { Missing, None, Str(""), Str("physics"), Str("chemistry"), Str("biology"),
    Str("math"), Str("art"), Num(0), Num(7), List(<<>>),
    List(<< Str("physics") >>) }

MessageValues ==
  { Missing, None, Str(""), Str("What is inertia?"), Num(0), Num(5) }

HistoryEntries ==
  { Dict([role |-> Str("user"), content |-> Str("What is force?")]),
    Dict([role |-> Str("assistant"), content |-> Str("Force is mass times acceleration.")]),
    Dict([content |-> Str("an entry without a role")]),
    Dict([role |-> Str("user")]),
    None }

SeqsUpTo(S, n) == UNION { [1..k -> S] : k \in 0..n }

HistoryValues ==
  { Missing, None } \cup { List(q) : q \in SeqsUpTo(HistoryEntries, MaxHistory) }

Bodies == [tutor : TutorValues, message : MessageValues, history : HistoryValues]

\* The requests of the concurrent specification.
ConcBodies ==
  { [tutor |-> Str("physics"), message |-> Str("What is inertia?"), history |-> Missing],
    [tutor |-> Str("art"), message |-> Str("What is inertia?"), history |-> Missing] }

(***************************************************************************)
(* The external completion service: a call raises an error, or returns a   *)
(* response whose choices hold the reply (a text, an empty text or null),  *)
(* or returns a response without choices.                                  *)
(***************************************************************************)
\* Line 99 catches any Exception: the errors of the client, and an exception
\* raised without a message, whose str() is empty.
ServiceErrors ==
  { Exc("APIConnectionError", "Connection error."),
    Exc("RateLimitError", "Error code: 429 - rate limit exceeded"),
    Exc("Exception", "") }

\* The errors of the concurrent specification.
ConcServiceErrors ==
  { Exc("APIConnectionError", "Connection error."),
    Exc("RateLimitError", "Error code: 429 - rate limit exceeded") }

ServiceResponses ==
  { << Str("Inertia is the resistance of a body to a change of its motion.") >>,
    << Str("A body at rest stays at rest.") >>,
    << Str("") >>,
    << None >>,
    << >> }

ConcServiceResponses ==
  { << Str("Inertia is the resistance of a body to a change of its motion.") >> }

Pending == [kind |-> "pending"]
Raised(e) == [kind |-> "raise", exc |-> e]
Returned(choices) == [kind |-> "return", choices |-> choices]

(***************************************************************************)
(* Pure parts of chat().                                                   *)
(***************************************************************************)
\* `not tutor or tutor not in TUTOR_PROMPTS`: the membership test hashes tutor.
TutorCheck(tutor, prompts) ==
  IF ~Truthy(tutor) THEN "invalid"
  ELSE IF ~Hashable(tutor) THEN "raise"
  ELSE IF ~InDict(tutor, prompts) THEN "invalid"
  ELSE "ok"

\* Variant: only a missing (null) message is rejected.
ValidMessageOnlyNone(message) == message.t # "null"

\* `not message` is false.
ValidMessage(message) == Truthy(message)

\* h[key] for a history entry h.
Subscript(h, key) ==
  IF h.t # "dict"
    THEN [exc |-> Exc("TypeError", "'NoneType' object is not subscriptable"), value |-> None]
  ELSE IF key \notin DOMAIN h.v
    THEN [exc |-> Exc("KeyError", key), value |-> None]
  ELSE [exc |-> None, value |-> h.v[key]]

\* The loop `for h in history: messages.append(...)` from entry i on.
RECURSIVE AppendHistory(_, _, _)
AppendHistory(messages, q, i) ==
  IF i > Len(q) THEN [exc |-> None, messages |-> messages]
  ELSE LET role == Subscript(q[i], "role")
           content == Subscript(q[i], "content")
       IN  IF role.exc # None THEN [exc |-> role.exc, messages |-> messages]
           ELSE IF content.exc # None THEN [exc |-> content.exc, messages |-> messages]
           ELSE AppendHistory(
                  Append(messages, [role |-> role.value, content |-> content.value]),
                  q, i + 1)

\* Variant: the user message is appended before the history.
BuildMessagesUserBeforeHistory(tutor, message, history, prompts) ==
  LET head == << [role |-> Str("system"), content |-> Str(prompts[tutor.v])],
                 [role |-> Str("user"), content |-> message] >>
  IN  IF history.t # "list"
        THEN [exc |-> Exc("TypeError", "'NoneType' object is not iterable"),
              messages |-> head]
      ELSE AppendHistory(head, history.v, 1)

\* Lines 78-81: system prompt, history, user message.
BuildMessages(tutor, message, history, prompts) ==
  LET system == << [role |-> Str("system"), content |-> Str(prompts[tutor.v])] >>
  IN  IF ~InDict(tutor, prompts)
        THEN [exc |-> Exc("KeyError", tutor.v), messages |-> << >>]
      ELSE IF history.t # "list"
        THEN [exc |-> Exc("TypeError", "'NoneType' object is not iterable"),
              messages |-> system]
      ELSE LET appended == AppendHistory(system, history.v, 1)
           IN  IF appended.exc # None THEN appended
               ELSE [exc |-> None,
                     messages |-> Append(appended.messages,
                                         [role |-> Str("user"), content |-> message])]

\* response.choices[0].message.content
ExtractReply(choices) ==
  IF Len(choices) = 0
    THEN [exc |-> Exc("IndexError", "list index out of range"), value |-> None]
  ELSE [exc |-> None, value |-> choices[1]]

\* `last_error = e`
RecordFailure(last_error, e) == e

\* Variant: exhaustion always raises the generic exception.
RaisedOnExhaustionGeneric(last_error) == Exc("Exception", "All models failed")

\* `raise last_error if last_error else Exception("All models failed")`
RaisedOnExhaustion(last_error) ==
  IF last_error # None THEN last_error ELSE Exc("Exception", "All models failed")

(***************************************************************************)
(* Responses: HTTP status and the keys of the JSON body (Missing: absent). *)
(***************************************************************************)
NoResponse ==
  [http |-> 0, status |-> Missing, response |-> Missing, model |-> Missing, error |-> Missing]

\* The handler raised: the framework answers 500 without a JSON body.
UnhandledResponse ==
  [http |-> 500, status |-> Missing, response |-> Missing, model |-> Missing, error |-> Missing]

InvalidTutorResponse ==
  [http |-> 400, status |-> Str("error"), response |-> Str(InvalidTutorText),
   model |-> Missing, error |-> Missing]

EmptyMessageResponse ==
  [http |-> 400, status |-> Str("error"), response |-> Str(EmptyMessageText),
   model |-> Missing, error |-> Missing]

\* Variant: the first model of the list is reported.
SuccessResponseFirstModel(reply, model) ==
  [http |-> 200, status |-> Str("success"), response |-> reply,
   model |-> Str(ModelList[1]), error |-> Missing]

\* Variant: every response carries an error key.
SuccessResponseWithError(reply, model) ==
  [http |-> 200, status |-> Str("success"), response |-> reply,
   model |-> Str(model), error |-> Str("")]

SuccessResponse(reply, model) ==
  [http |-> 200, status |-> Str("success"), response |-> reply,
   model |-> Str(model), error |-> Missing]

\* Variant: the diagnostic is sent as the response text.
ErrorResponseRawText(e) ==
  [http |-> 500, status |-> Str("error"), response |-> Str(StrOfException(e)),
   model |-> Missing, error |-> Str(StrOfException(e))]

ErrorResponse(e) ==
  [http |-> 500, status |-> Str("error"), response |-> Str(ApologyText),
   model |-> Missing, error |-> Str(StrOfException(e))]

(***************************************************************************)
(* State.                                                                  *)
(***************************************************************************)
VARIABLES
  TUTOR_PROMPTS,  \* the module-level dict
  MODELS,         \* the module-level list
  request,        \* request[r]: the JSON body of request r
  pc,             \* pc[r]: where the handling of request r stands
  frame,          \* frame[f]: the local variables of one invocation of chat()
  calls,          \* calls[r]: the completion calls issued for request r, in order
  response        \* response[r]: what the client of request r receives

vars == << TUTOR_PROMPTS, MODELS, request, pc, frame, calls, response >>

Unbound == [t |-> "unbound"]

UnboundFrame ==
  [tutor |-> Unbound, message |-> Unbound, history |-> Unbound, messages |-> Unbound,
   last_error |-> Unbound, i |-> 0, model |-> Unbound]

\* Variant: the local variables live in one module-level frame.
SharedFrame(r) == 1

\* Every invocation of chat() has a frame of its own.
Frame(r) == r

InitWith(reqs, bodies) ==
  /\ TUTOR_PROMPTS = TutorPromptTable
  /\ MODELS = ModelList
  /\ request \in [reqs -> bodies]
  /\ pc = [r \in reqs |-> "received"]
  /\ frame = [f \in reqs |-> UnboundFrame]
  /\ calls = [r \in reqs |-> << >>]
  /\ response = [r \in reqs |-> NoResponse]

Init == InitWith({1}, Bodies)

InitConc == InitWith(1..NumRequests, ConcBodies)

Respond(r, resp) ==
  /\ response' = [response EXCEPT ![r] = resp]
  /\ pc' = [pc EXCEPT ![r] = "done"]

\* Lines 59-74: read the request and validate tutor, then message.
Validate(r) ==
  /\ pc[r] = "received"
  /\ LET data == request[r]
         tutor == DictGet(data, "tutor", None)
         message == DictGet(data, "message", None)
         history == DictGet(data, "history", List(<< >>))
         check == TutorCheck(tutor, TUTOR_PROMPTS)
     IN  /\ frame' = [frame EXCEPT ![Frame(r)] =
                        [@ EXCEPT !.tutor = tutor, !.message = message, !.history = history]]
         /\ IF check = "raise"
              THEN /\ response' = [response EXCEPT ![r] = UnhandledResponse]
                   /\ pc' = [pc EXCEPT ![r] = "crashed"]
            ELSE IF check = "invalid" THEN Respond(r, InvalidTutorResponse)
            ELSE IF ~ValidMessage(message) THEN Respond(r, EmptyMessageResponse)
            ELSE /\ pc' = [pc EXCEPT ![r] = "assemble"]
                 /\ UNCHANGED response
  /\ UNCHANGED << TUTOR_PROMPTS, MODELS, request, calls >>

\* Lines 76-84, and 107-113 when the assembly raises.
Assemble(r) ==
  /\ pc[r] = "assemble"
  /\ LET f == frame[Frame(r)]
         built == BuildMessages(f.tutor, f.message, f.history, TUTOR_PROMPTS)
     IN  IF built.exc # None
           THEN /\ frame' = [frame EXCEPT ![Frame(r)] = [@ EXCEPT !.messages = built.messages]]
                /\ Respond(r, ErrorResponse(built.exc))
         ELSE /\ frame' = [frame EXCEPT ![Frame(r)] =
                             [@ EXCEPT !.messages = built.messages, !.last_error = None, !.i = 1]]
              /\ pc' = [pc EXCEPT ![r] = "loop"]
              /\ UNCHANGED response
  /\ UNCHANGED << TUTOR_PROMPTS, MODELS, request, calls >>

\* Variant: the next call is issued without waiting for the previous one.
IssueCallWithoutWaiting(r) ==
  /\ pc[r] \in {"loop", "calling"}
  /\ LET f == frame[Frame(r)]
     IN  /\ f.i <= Len(MODELS)
         /\ frame' = [frame EXCEPT ![Frame(r)] = [@ EXCEPT !.model = MODELS[f.i], !.i = f.i + 1]]
         /\ calls' = [calls EXCEPT ![r] =
                        Append(@, [model |-> MODELS[f.i], messages |-> f.messages,
                                   temperature |-> TemperatureTenths,
                                   max_tokens |-> MaxTokens, result |-> Pending])]
  /\ pc' = [pc EXCEPT ![r] = "calling"]
  /\ UNCHANGED << TUTOR_PROMPTS, MODELS, request, response >>

\* Lines 85-92: the loop takes the next model and issues the completion call.
IssueCall(r) ==
  /\ pc[r] = "loop"
  /\ LET f == frame[Frame(r)]
     IN  /\ f.i <= Len(MODELS)
         /\ frame' = [frame EXCEPT ![Frame(r)] = [@ EXCEPT !.model = MODELS[f.i], !.i = f.i + 1]]
         /\ calls' = [calls EXCEPT ![r] =
                        Append(@, [model |-> MODELS[f.i], messages |-> f.messages,
                                   temperature |-> TemperatureTenths,
                                   max_tokens |-> MaxTokens, result |-> Pending])]
  /\ pc' = [pc EXCEPT ![r] = "calling"]
  /\ UNCHANGED << TUTOR_PROMPTS, MODELS, request, response >>

\* The service answers the call that is in flight.
SetResult(r, result) ==
  calls' = [calls EXCEPT ![r] = [@ EXCEPT ![Len(@)] = [@ EXCEPT !.result = result]]]

\* Variant: a reply is recorded as the response but the loop goes on.
CallReturnsKeepsTrying(r, responses) ==
  /\ pc[r] = "calling"
  /\ \E choices \in responses :
       LET f == frame[Frame(r)]
           reply == ExtractReply(choices)
       IN  /\ SetResult(r, Returned(choices))
           /\ IF reply.exc = None
                THEN /\ response' = [response EXCEPT ![r] = SuccessResponse(reply.value, f.model)]
                     /\ UNCHANGED frame
              ELSE /\ frame' = [frame EXCEPT ![Frame(r)] =
                                  [@ EXCEPT !.last_error = RecordFailure(f.last_error, reply.exc)]]
                   /\ UNCHANGED response
  /\ pc' = [pc EXCEPT ![r] = "loop"]
  /\ UNCHANGED << TUTOR_PROMPTS, MODELS, request >>

\* Variant: the reply is extracted outside the inner try, so a response
\* without choices ends the request with the 500 response.
CallReturnsUncaught(r, responses) ==
  /\ pc[r] = "calling"
  /\ \E choices \in responses :
       LET f == frame[Frame(r)]
           reply == ExtractReply(choices)
       IN  /\ SetResult(r, Returned(choices))
           /\ IF reply.exc = None
                THEN Respond(r, SuccessResponse(reply.value, f.model))
              ELSE Respond(r, ErrorResponse(reply.exc))
  /\ UNCHANGED << TUTOR_PROMPTS, MODELS, request, frame >>

\* The call returns: lines 93-98, or 99-102 when extracting the reply raises.
CallReturns(r, responses) ==
  /\ pc[r] = "calling"
  /\ \E choices \in responses :
       LET f == frame[Frame(r)]
           reply == ExtractReply(choices)
       IN  /\ SetResult(r, Returned(choices))
           /\ IF reply.exc = None
                THEN /\ Respond(r, SuccessResponse(reply.value, f.model))
                     /\ UNCHANGED frame
              ELSE /\ frame' = [frame EXCEPT ![Frame(r)] =
                                  [@ EXCEPT !.last_error = RecordFailure(f.last_error, reply.exc)]]
                   /\ pc' = [pc EXCEPT ![r] = "loop"]
                   /\ UNCHANGED response
  /\ UNCHANGED << TUTOR_PROMPTS, MODELS, request >>

\* Variant: after a failure the history is dropped from the messages.
CallRaisesTrimsHistory(r, errors) ==
  /\ pc[r] = "calling"
  /\ \E e \in errors :
       /\ SetResult(r, Raised(e))
       /\ frame' = [frame EXCEPT ![Frame(r)] =
                      [@ EXCEPT !.last_error = RecordFailure(frame[Frame(r)].last_error, e),
                                !.messages = << @[1], @[Len(@)] >>]]
  /\ pc' = [pc EXCEPT ![r] = "loop"]
  /\ UNCHANGED << TUTOR_PROMPTS, MODELS, request, response >>

\* The call raises: lines 99-102.
CallRaises(r, errors) ==
  /\ pc[r] = "calling"
  /\ \E e \in errors :
       /\ SetResult(r, Raised(e))
       /\ frame' = [frame EXCEPT ![Frame(r)] =
                      [@ EXCEPT !.last_error = RecordFailure(frame[Frame(r)].last_error, e)]]
  /\ pc' = [pc EXCEPT ![r] = "loop"]
  /\ UNCHANGED << TUTOR_PROMPTS, MODELS, request, response >>

\* Variant: nothing is raised after the loop and no response is produced.
ExhaustedNeverResponds(r) ==
  /\ pc[r] = "loop"
  /\ frame[Frame(r)].i > Len(MODELS)
  /\ UNCHANGED vars

\* The loop is exhausted: line 105, caught at 107-113.
Exhausted(r) ==
  /\ pc[r] = "loop"
  /\ LET f == frame[Frame(r)]
     IN  /\ f.i > Len(MODELS)
         /\ Respond(r, ErrorResponse(RaisedOnExhaustion(f.last_error)))
  /\ UNCHANGED << TUTOR_PROMPTS, MODELS, request, frame, calls >>

Next ==
  \/ \E r \in DOMAIN request : Validate(r)
  \/ \E r \in DOMAIN request : Assemble(r)
  \/ \E r \in DOMAIN request : IssueCall(r)
  \/ \E r \in DOMAIN request : CallReturns(r, ServiceResponses)
  \/ \E r \in DOMAIN request : CallRaises(r, ServiceErrors)
  \/ \E r \in DOMAIN request : Exhausted(r)

NextConc ==
  \/ \E r \in DOMAIN request : Validate(r)
  \/ \E r \in DOMAIN request : Assemble(r)
  \/ \E r \in DOMAIN request : IssueCall(r)
  \/ \E r \in DOMAIN request : CallReturns(r, ConcServiceResponses)
  \/ \E r \in DOMAIN request : CallRaises(r, ConcServiceErrors)
  \/ \E r \in DOMAIN request : Exhausted(r)

\* The steps chat() takes by itself, and the answers of the completion service.
HandlerStep(r) == Validate(r) \/ Assemble(r) \/ IssueCall(r) \/ Exhausted(r)
ServiceAnswers(r) == CallReturns(r, ServiceResponses) \/ CallRaises(r, ServiceErrors)

Spec == Init /\ [][Next]_vars

\* The handler runs to its end and every completion call returns or raises.
FairSpec ==
  /\ Init
  /\ [][Next]_vars
  /\ WF_vars(HandlerStep(1))
  /\ WF_vars(ServiceAnswers(1))

SpecConc == InitConc /\ [][NextConc]_vars

(***************************************************************************)
(* Vocabulary of the properties.                                           *)
(***************************************************************************)
Requests == DOMAIN request

Finished(r) == pc[r] \in {"done", "crashed"}

\* The values the handler reads from the request of r.
TutorOf(r) == DictGet(request[r], "tutor", None)
MessageOf(r) == DictGet(request[r], "message", None)
HistoryOf(r) == DictGet(request[r], "history", List(<< >>))

IsTutorKey(tutor) == tutor.t = "str" /\ tutor.v \in DOMAIN TutorPromptTable
IsEmptyValue(x) == x.t = "null" \/ x = Str("") \/ x = Num(0) \/ x = List(<< >>)

\* An attempt succeeded when the call returned a response that holds a reply.
Succeeded(c) == c.result.kind = "return" /\ Len(c.result.choices) > 0
Failed(c) ==
  \/ c.result.kind = "raise"
  \/ c.result.kind = "return" /\ Len(c.result.choices) = 0
FailureOf(c) ==
  IF c.result.kind = "raise" THEN c.result.exc
  ELSE Exc("IndexError", "list index out of range")

AllFailed(log, n) == \A k \in 1..n : Failed(log[k])

(***************************************************************************)
(* Properties.                                                             *)
(***************************************************************************)

\* C1: once the attempt on some model has succeeded, no later model is called
\* for that request: a succeeded call is the last call of its request, so a
\* success of the first model leaves exactly one call.
C1_FirstSuccessStops ==
  \A r \in Requests :
    \A k \in 1..Len(calls[r]) :
      Succeeded(calls[r][k]) => k = Len(calls[r])

C1_Witness ==
  \E r \in Requests :
    /\ pc[r] = "done"
    /\ Len(calls[r]) = 1
    /\ Succeeded(calls[r][1])

\* C2: when the first N models fail and model N+1 succeeds, the response is
\* HTTP 200 with status "success", the identifier of model N+1 and the reply
\* of that call.
C2_FallbackReportsSucceedingModel ==
  \A r \in Requests :
    \A n \in 0..(Len(MODELS) - 1) :
      ( /\ Len(calls[r]) = n + 1
        /\ AllFailed(calls[r], n)
        /\ Succeeded(calls[r][n + 1]) )
      => /\ response[r].http = 200
         /\ response[r].status = Str("success")
         /\ response[r].model = Str(MODELS[n + 1])
         /\ response[r].response = calls[r][n + 1].result.choices[1]
         /\ response[r].error = Missing

C2_Witness ==
  \E r \in Requests :
    /\ pc[r] = "done"
    /\ Len(calls[r]) = 3
    /\ AllFailed(calls[r], 2)
    /\ Succeeded(calls[r][3])
    /\ response[r].model = Str("openai/gpt-3.5-turbo")

\* C3: when the calls to all models fail, the response is HTTP 500 with status
\* "error", the apology text and the non-empty diagnostic of the failure of
\* the last model of the list.
C3_ExhaustionReportsLastFailure ==
  \A r \in Requests :
    ( /\ Len(calls[r]) = Len(MODELS)
      /\ AllFailed(calls[r], Len(MODELS)) )
    => /\ pc[r] \in {"loop", "done"}
       /\ pc[r] = "done" =>
            /\ response[r].http = 500
            /\ response[r].status = Str("error")
            /\ response[r].response = Str(ApologyText)
            /\ response[r].model = Missing
            /\ response[r].error = Str(StrOfException(FailureOf(calls[r][Len(MODELS)])))
            /\ response[r].error # Str("")

\* C4: a request whose tutor is missing, empty or not a key of TUTOR_PROMPTS
\* is answered with HTTP 400, status "error" and "Invalid tutor selected",
\* whatever its message and history are, and no completion call is made.
C4_InvalidTutorRejected ==
  \A r \in Requests :
    ~IsTutorKey(TutorOf(r))
    => /\ calls[r] = << >>
       /\ Finished(r) => response[r] = InvalidTutorResponse

\* C5: a request with a valid tutor and a missing or empty message is
\* answered with HTTP 400, status "error" and "Message cannot be empty",
\* whatever its history is, and no completion call is made.
C5_EmptyMessageRejected ==
  \A r \in Requests :
    (IsTutorKey(TutorOf(r)) /\ IsEmptyValue(MessageOf(r)))
    => /\ calls[r] = << >>
       /\ pc[r] \in {"received", "done"}
       /\ pc[r] = "done" => response[r] = EmptyMessageResponse

C5_Witness ==
  \E r \in Requests :
    /\ pc[r] = "done"
    /\ IsTutorKey(TutorOf(r))
    /\ MessageOf(r) = Str("")
    /\ HistoryOf(r).t = "list"
    /\ Len(HistoryOf(r).v) = MaxHistory
    /\ response[r].response = Str(EmptyMessageText)

\* C6: for a valid request, the message sequence of every completion call
\* has length len(history)+2: the system message with exactly the prompt of
\* the tutor first, the user message with the request's message last, and
\* between them the role and content of the history entries, in order.
C6_MessageSequenceAssembled ==
  \A r \in Requests :
    (IsTutorKey(TutorOf(r)) /\ ~IsEmptyValue(MessageOf(r)))
    => \A k \in 1..Len(calls[r]) :
         LET m == calls[r][k].messages
             history == HistoryOf(r)
         IN  /\ history.t = "list"
             /\ Len(m) = Len(history.v) + 2
             /\ m[1] = [role |-> Str("system"),
                        content |-> Str(TutorPromptTable[TutorOf(r).v])]
             /\ m[Len(m)] = [role |-> Str("user"), content |-> MessageOf(r)]
             /\ \A i \in 1..Len(history.v) :
                  /\ history.v[i].t = "dict"
                  /\ {"role", "content"} \subseteq DOMAIN history.v[i].v
                  /\ m[i + 1].role = history.v[i].v.role
                  /\ m[i + 1].content = history.v[i].v.content

C6_Witness ==
  \E r \in Requests :
    /\ Len(calls[r]) >= 1
    /\ TutorOf(r) = Str("chemistry")
    /\ HistoryOf(r).t = "list"
    /\ Len(HistoryOf(r).v) = 2
    /\ HistoryOf(r).v[1] # HistoryOf(r).v[2]
    /\ Len(calls[r][1].messages) = 4

\* C7: a response with status "error" carries no model field and no reply of
\* a model call: no call of the request succeeded, its text is one of the
\* three fixed strings, and its only variable content is the diagnostic of a
\* failure (of the assembly or of a call of the request).
C7_ErrorResponseLeaksNoReply ==
  \A r \in Requests :
    response[r].status = Str("error")
    => /\ response[r].http \in {400, 500}
       /\ response[r].model = Missing
       /\ response[r].response \in
            {Str(InvalidTutorText), Str(EmptyMessageText), Str(ApologyText)}
       /\ \A k \in 1..Len(calls[r]) : ~Succeeded(calls[r][k])
       /\ \/ response[r].error = Missing
          \/ /\ response[r].http = 500
             /\ response[r].response = Str(ApologyText)
             /\ \/ response[r].error \in
                     { Str(StrOfException(FailureOf(calls[r][k]))) : k \in 1..Len(calls[r]) }
                \/ /\ calls[r] = << >>
                   /\ response[r].error \in
                        { Str("'NoneType' object is not iterable"),
                          Str("'NoneType' object is not subscriptable"),
                          Str("'role'"), Str("'content'") }

C7_Witness ==
  \E r \in Requests :
    /\ response[r].status = Str("error")
    /\ response[r].http = 500
    /\ \E k \in 1..Len(calls[r]) : calls[r][k].result = Returned(<< >>)

\* C8: the models are tried one after the other in the order of MODELS: the
\* k-th call of a request is for MODELS[k], at most one call is in flight, and
\* every call but the last one of the request has returned a failure.
C8_SequentialInDeclaredOrder ==
  \A r \in Requests :
    /\ Len(calls[r]) <= Len(MODELS)
    /\ \A k \in 1..Len(calls[r]) :
         /\ calls[r][k].model = MODELS[k]
         /\ k < Len(calls[r]) => Failed(calls[r][k])
    /\ Cardinality({k \in 1..Len(calls[r]) : calls[r][k].result = Pending}) <= 1

C8_Witness ==
  \E r \in Requests :
    /\ Len(calls[r]) = 2
    /\ calls[r][2].result = Pending
    /\ calls[r][2].model = "anthropic/claude-3-sonnet"

\* The response a request gets when nothing but its own body and the outcomes
\* of its own calls decide it.
OwnResponse(body, log) ==
  LET tutor == DictGet(body, "tutor", None)
      message == DictGet(body, "message", None)
      history == DictGet(body, "history", List(<< >>))
      check == TutorCheck(tutor, TutorPromptTable)
  IN  IF check = "raise" THEN UnhandledResponse
      ELSE IF check = "invalid" THEN InvalidTutorResponse
      ELSE IF ~ValidMessage(message) THEN EmptyMessageResponse
      ELSE LET built == BuildMessages(tutor, message, history, TutorPromptTable)
           IN  IF built.exc # None THEN ErrorResponse(built.exc)
               ELSE IF log # << >> /\ Succeeded(log[Len(log)])
                 THEN SuccessResponse(log[Len(log)].result.choices[1], log[Len(log)].model)
               ELSE ErrorResponse(
                      RaisedOnExhaustion(IF log = << >> THEN None ELSE FailureOf(log[Len(log)])))

\* C9: concurrently handled requests share no mutable state: TUTOR_PROMPTS and
\* MODELS keep their initial values, every call of a request carries the
\* messages assembled from that request, and the response of a request is
\* decided by its own tutor, message and history and the outcomes of its own
\* calls.
C9_RequestsIndependent ==
  /\ TUTOR_PROMPTS = TutorPromptTable
  /\ MODELS = ModelList
  /\ \A r \in Requests :
       /\ \A k \in 1..Len(calls[r]) :
            calls[r][k].messages =
              BuildMessages(TutorOf(r), MessageOf(r), HistoryOf(r), TutorPromptTable).messages
       /\ IF Finished(r) THEN response[r] = OwnResponse(request[r], calls[r])
          ELSE response[r] = NoResponse

C9_Witness ==
  \E r1, r2 \in Requests :
    /\ r1 # r2
    /\ pc[r1] = "done" /\ pc[r2] = "done"
    /\ request[r1] = request[r2]
    /\ Len(calls[r1]) = Len(MODELS) /\ Len(calls[r2]) = Len(MODELS)
    /\ response[r1].http = 500 /\ response[r2].http = 500
    /\ response[r1].error # response[r2].error

\* C10: in every response the model field is present exactly when the status
\* is "success" (HTTP 200), the error field is present only when the status
\* is "error", and no response carries both.
C10_ModelAndErrorFieldsExclusive ==
  \A r \in Requests :
    Finished(r)
    => /\ response[r].model # Missing <=> response[r].status = Str("success")
       /\ response[r].status = Str("success") <=> response[r].http = 200
       /\ response[r].error # Missing => response[r].status = Str("error")
       /\ ~(response[r].model # Missing /\ response[r].error # Missing)

C10_Witness ==
  \E r \in Requests :
    /\ pc[r] = "done"
    /\ response[r].http = 200
    /\ response[r].model = Str("google/gemini-pro")
    /\ response[r].error = Missing


\* The position of the first succeeded call of a log (0: none).
FirstSucceeded(log) ==
  IF \E k \in 1..Len(log) : Succeeded(log[k])
    THEN CHOOSE k \in 1..Len(log) :
           /\ Succeeded(log[k])
           /\ \A j \in 1..(k - 1) : ~Succeeded(log[j])
  ELSE 0

\* C11: whenever the status is "success", the response field is a non-empty
\* reply text and the model field is the first model of MODELS whose call
\* succeeded.
C11_SuccessHasNonEmptyReply ==
  \A r \in Requests :
    response[r].status = Str("success")
    => /\ response[r].response.t = "str"
       /\ response[r].response.v # ""
       /\ FirstSucceeded(calls[r]) > 0
       /\ response[r].model = Str(MODELS[FirstSucceeded(calls[r])])

\* Validation passes: tutor is a key of TUTOR_PROMPTS and message is non-empty.
PassesValidation(r) == IsTutorKey(TutorOf(r)) /\ ~IsEmptyValue(MessageOf(r))

\* C12: a failed attempt (the call raised, or the reply could not be taken
\* from the returned response) is recorded as last_error and does not end the
\* request: either the next model of MODELS has been or is about to be called,
\* or it was the last model and the request ends with the 500 response that
\* carries this failure's diagnostic.
C12_FailureAdvancesTheLoop ==
  \A r \in Requests :
    \A k \in 1..Len(calls[r]) :
      Failed(calls[r][k])
      => \/ /\ k < Len(calls[r])
            /\ calls[r][k + 1].model = MODELS[k + 1]
         \/ /\ k = Len(calls[r])
            /\ pc[r] = "loop"
            /\ frame[Frame(r)].last_error = FailureOf(calls[r][k])
            /\ frame[Frame(r)].i = k + 1
         \/ /\ k = Len(calls[r])
            /\ k = Len(MODELS)
            /\ pc[r] = "done"
            /\ response[r].http = 500
            /\ response[r].response = Str(ApologyText)
            /\ response[r].error = Str(StrOfException(FailureOf(calls[r][k])))

C12_Witness ==
  \E r \in Requests :
    /\ Len(calls[r]) = 2
    /\ calls[r][1].result = Returned(<< >>)
    /\ calls[r][2].result.kind = "raise"
    /\ pc[r] = "loop"
    /\ frame[Frame(r)].last_error = calls[r][2].result.exc

\* C13: a request that passes validation makes at least one completion call,
\* whatever its history is, and ends with the success response of the first
\* succeeding model or with the 500 response after all models were attempted
\* and failed.
C13_ValidRequestReachesTheModels ==
  \A r \in Requests :
    (PassesValidation(r) /\ Finished(r))
    => /\ Len(calls[r]) >= 1
       /\ \/ /\ response[r].status = Str("success")
             /\ Succeeded(calls[r][Len(calls[r])])
          \/ /\ response[r].http = 500
             /\ response[r].response = Str(ApologyText)
             /\ Len(calls[r]) = Len(MODELS)
             /\ AllFailed(calls[r], Len(MODELS))

\* C14: every completion call of a request carries the same message sequence,
\* temperature 0.7 and max_tokens 1000; only the model differs between the
\* calls, and the messages held by the handler stay those of the first call.
C14_CallsDifferOnlyInModel ==
  \A r \in Requests :
    /\ \A k \in 1..Len(calls[r]) :
         /\ calls[r][k].messages = calls[r][1].messages
         /\ calls[r][k].temperature = 7
         /\ calls[r][k].max_tokens = 1000
         /\ \A j \in 1..Len(calls[r]) : j # k => calls[r][j].model # calls[r][k].model
    /\ Len(calls[r]) >= 1 => frame[Frame(r)].messages = calls[r][1].messages

C14_Witness ==
  \E r \in Requests :
    /\ Len(calls[r]) = 3
    /\ Failed(calls[r][1]) /\ Failed(calls[r][2])
    /\ Len(calls[r][3].messages) = 3
    /\ calls[r][3].messages = calls[r][1].messages


\* C15: when every completion call returns or raises, the request eventually
\* gets a response, and only one: the response never changes once given; at
\* most len(MODELS) = 4 calls are made, for a prefix of MODELS, so no model is
\* called twice.
C15_RequestTerminates ==
  /\ <>Finished(1)
  /\ [](/\ Len(calls[1]) <= 4
        /\ \A k \in 1..Len(calls[1]) : calls[1][k].model = ModelList[k])
  /\ [][response[1] # NoResponse => response'[1] = response[1]]_vars

C15_Witness ==
  /\ pc[1] = "done"
  /\ Len(calls[1]) = 4
  /\ response[1] # NoResponse
  /\ calls[1][4].result.kind = "raise"
  /\ calls[1][4].model = "google/gemini-pro"

\* The positions of the failed calls of a log.
FailedCalls(log) == {k \in 1..Len(log) : Failed(log[k])}
Last(S) == CHOOSE k \in S : \A j \in S : j <= k

\* C16: during the loop last_error is None exactly when no attempt has failed
\* yet and otherwise is the failure of the most recent failed attempt; so the
\* text "All models failed" never is the error of a response.
C16_LastErrorIsLatestFailure ==
  \A r \in Requests :
    /\ (pc[r] \in {"loop", "calling"} \/ Len(calls[r]) >= 1)
       => LET f == frame[Frame(r)]
              failed == FailedCalls(calls[r])
          IN  /\ f.last_error = None <=> failed = {}
              /\ failed # {} => f.last_error = FailureOf(calls[r][Last(failed)])
    /\ response[r].error # Str("All models failed")

C16_Witness ==
  \E r \in Requests :
    /\ pc[r] = "calling"
    /\ Len(calls[r]) = 3
    /\ FailureOf(calls[r][1]) # FailureOf(calls[r][2])
    /\ frame[Frame(r)].last_error = FailureOf(calls[r][2])

====
